---- MODULE Spec2Model ----
(***************************************************************************)
(* Model of the GitHub LangGraph agent (src/g_client_new.py): the tool     *)
(* selector, the query-analysis node, the tool-execution node, the         *)
(* continuation predicate, the response-generation node and the session    *)
(* driver, together with the tool registry of src/g_server_new.py.         *)
(*                                                                         *)
(* Texts are TLA+ strings; `in`, lower() and strip() are computed          *)
(* character by character.                                                 *)
(***************************************************************************)
EXTENDS Integers, Sequences, FiniteSets, TLC

VARIABLES
    pc,               \* "input" (main at input()), a graph node, "END" (the graph ended
                      \* and main is at input() again), "raised" (a fault has left
                      \* graph.ainvoke; the other variables are the state the failed
                      \* node was passed), "exited"
    messages,         \* AgentState.messages
    current_query,    \* AgentState.current_query
    selected_tools,   \* AgentState.selected_tools
    tool_results,     \* AgentState.tool_results: insertion-ordered dict, as a sequence of items
    final_response,   \* AgentState.final_response
    iteration_count,  \* AgentState.iteration_count
    max_iterations,   \* AgentState.max_iterations
    is_complex_query, \* AgentState.is_complex_query
    search_results,   \* `results` of store.search in _retrieve_relevant_tools
    last_outcomes,    \* what each invocation of the latest batch did: returned a text,
                      \* raised a fault, or was not invoked (unknown name)
    turn_error,       \* TRUE when the driver's except branch reported the turn's fault
    previous_turn     \* while a query read by the driver awaits analysis: how the turn
                      \* before it ended ("none" for the first query of the session)

vars == <<pc, messages, current_query, selected_tools, tool_results, final_response,
          iteration_count, max_iterations, is_complex_query, search_results,
          last_outcomes, turn_error, previous_turn>>

(***************************************************************************)
(* Bounds of the model.                                                    *)
(***************************************************************************)
\* number of registry tools the semantic search may rank, selector runs
SelPoolSize == 5
\* number of registry tools the semantic search may rank, whole turns
TurnPoolSize == 0
\* longest batch of invocations the model proposes in one pass
MaxBatch == 2
\* most invocations the model proposes in one turn
MaxCalls == 2
\* most replies of one turn that announce more work without proposing an invocation
MaxNudges == 1
\* the same two bounds for the turns checked for termination
LiveCalls == 1
LiveNudges == 1
\* most invocations of one turn in the turns where a tool runs again
ReplayCalls == 3

(***************************************************************************)
(* Program constants.                                                      *)
(***************************************************************************)
DefaultLimit == 5
ComplexBudget == 5
SimpleBudget == 10
DriverBudget == 5
PreviewLen == 200

(***************************************************************************)
(* Python string primitives.                                               *)
(***************************************************************************)
Min(a, b) == IF a <= b THEN a ELSE b

LowerChar(c) ==
    CASE c = "A" -> "a" [] c = "B" -> "b" [] c = "C" -> "c" [] c = "D" -> "d"
      [] c = "E" -> "e" [] c = "F" -> "f" [] c = "G" -> "g" [] c = "H" -> "h"
      [] c = "I" -> "i" [] c = "J" -> "j" [] c = "K" -> "k" [] c = "L" -> "l"
      [] c = "M" -> "m" [] c = "N" -> "n" [] c = "O" -> "o" [] c = "P" -> "p"
      [] c = "Q" -> "q" [] c = "R" -> "r" [] c = "S" -> "s" [] c = "T" -> "t"
      [] c = "U" -> "u" [] c = "V" -> "v" [] c = "W" -> "w" [] c = "X" -> "x"
      [] c = "Y" -> "y" [] c = "Z" -> "z" [] OTHER -> c

RECURSIVE LowerFrom(_, _)
\* the characters of s from the i-th on, each lowered
LowerFrom(s, i) ==
    IF i > Len(s) THEN ""
    ELSE LowerChar(SubSeq(s, i, i)) \o LowerFrom(s, i + 1)

\* str.lower()
Lower(s) == LowerFrom(s, 1)

\* `sub in s` for strings
Contains(sub, s) ==
    \E text \in {s} :
    \E i \in 1..(Len(text) - Len(sub) + 1) : SubSeq(text, i, i + Len(sub) - 1) = sub

\* any(indicator in s for indicator in indicators)
ContainsAny(indicators, s) ==
    \E text \in {s} :
    \E k \in 1..Len(indicators) : Contains(indicators[k], text)

\* str.strip() for blanks: from the first to the last character that is no blank
Strip(s) ==
    LET inked == {i \in 1..Len(s) : SubSeq(s, i, i) # " "}
    IN IF inked = {} THEN ""
       ELSE SubSeq(s, CHOOSE i \in inked : \A j \in inked : i <= j,
                      CHOOSE i \in inked : \A j \in inked : j <= i)

\* s[:n] for n >= 0
Take(s, n) == SubSeq(s, 1, Min(n, Len(s)))

\* x in list
InSeq(x, s) == x \in {s[i] : i \in DOMAIN s}

Range(s) == {s[i] : i \in 1..Len(s)}

(***************************************************************************)
(* Tool registry (src/g_server_new.py).                                    *)
(***************************************************************************)
all_tools ==
    << "github_greeter", "list_branches", "create_branch", "delete_branch",
       "create_file", "update_file", "delete_file", "list_pull_requests",
       "create_pull_request", "merge_pull_request", "close_pull_request",
       "list_issues", "create_issue", "close_issue", "comment_on_issue",
       "list_collaborators", "add_collaborator", "list_workflows",
       "clone_repository", "checkout_branch", "commit_changes", "push_changes",
       "get_repo_status", "create_local_file", "pull_changes", "open_file_vscode",
       "create_repository", "delete_repository", "list_user_repositories",
       "list_organization_repositories", "get_github_user_info",
       "get_repository_info" >>

\* keys of the dict built by get_tool_registry
tool_registry == Range(all_tools)

(***************************************************************************)
(* Tool selector (_retrieve_relevant_tools).                               *)
(***************************************************************************)
special_tools ==
    << <<"repository", <<"create_repository", "delete_repository", "get_repository_info">> >>,
       <<"repo", <<"create_repository", "delete_repository", "get_repository_info">> >>,
       <<"branch", <<"list_branches", "create_branch", "delete_branch", "checkout_branch">> >>,
       <<"file", <<"create_file", "update_file", "delete_file", "create_local_file">> >>,
       <<"pull request", <<"list_pull_requests", "create_pull_request", "merge_pull_request", "close_pull_request">> >>,
       <<"pr", <<"list_pull_requests", "create_pull_request", "merge_pull_request", "close_pull_request">> >>,
       <<"issue", <<"list_issues", "create_issue", "close_issue", "comment_on_issue">> >>,
       <<"clone", <<"clone_repository", "get_repo_status", "pull_changes">> >>,
       <<"commit", <<"commit_changes", "push_changes", "get_repo_status">> >>,
       <<"workflow", <<"list_workflows", "trigger_workflow">> >>,
       <<"collaborator", <<"list_collaborators", "add_collaborator">> >>,
       <<"user", <<"get_github_user_info", "list_user_repositories">> >>,
       <<"organization", <<"list_organization_repositories">> >>,
       <<"vscode", <<"open_file_in_vscode">> >> >>

\* the test of line 124, with the mutation that forgets `tool not in tool_names`
AppendableNoDedup(tool, tool_names) == tool \in tool_registry

\* the test of line 124, with the mutation that forgets `tool in self.tool_registry`
AppendableAnyName(tool, tool_names) == ~InSeq(tool, tool_names)

\* the test of line 124, with the mutation that takes the tools outside the registry
AppendableUnregistered(tool, tool_names) ==
    ~InSeq(tool, tool_names) /\ tool \notin tool_registry

\* the test of line 124: tool not in tool_names and tool in self.tool_registry
Appendable(tool, tool_names) == ~InSeq(tool, tool_names) /\ tool \in tool_registry

RECURSIVE AppendTools(_, _, _)
\* the inner loop, lines 123-125: tool_names after the first i tools of the keyword
AppendTools(tool_names, tools, i) ==
    IF i = 0 THEN tool_names
    ELSE CHOOSE next \in
             {IF Appendable(tools[i], sofar) THEN Append(sofar, tools[i]) ELSE sofar :
                  sofar \in {AppendTools(tool_names, tools, i - 1)}} : TRUE

RECURSIVE ApplySpecial(_, _, _)
\* the outer loop, lines 121-125: tool_names after the first k entries of special_tools
ApplySpecial(tool_names, query_lower, k) ==
    IF k = 0 THEN tool_names
    ELSE CHOOSE next \in
             {IF Contains(special_tools[k][1], query_lower)
              THEN AppendTools(sofar, special_tools[k][2], Len(special_tools[k][2]))
              ELSE sofar :
                  sofar \in {ApplySpecial(tool_names, query_lower, k - 1)}} : TRUE

\* the return of line 127 with the mutation that truncates before the keyword pass
RetrieveTruncateFirst(query, results, limit) ==
    ApplySpecial(Take(results, limit), Lower(query), Len(special_tools))

\* _retrieve_relevant_tools, given what store.search returned
retrieve_relevant_tools(query, results, limit) ==
    Take(ApplySpecial(results, Lower(query), Len(special_tools)), limit)

RECURSIVE Rankings(_, _)
\* duplicate-free sequences of at most n keys of pool: what store.search may return
Rankings(pool, n) ==
    IF n = 0 THEN {<< >>}
    ELSE LET shorter == Rankings(pool, n - 1)
         IN shorter \cup
            UNION {{Append(r, t) : t \in pool \ Range(r)} :
                       r \in {x \in shorter : Len(x) = n - 1}}

\* the keys store.search may rank: the first n tools of the registry
Pool(n) == Range(Take(all_tools, n))

(***************************************************************************)
(* Messages (langchain_core.messages).                                     *)
(***************************************************************************)
HumanMessage(content) ==
    [type |-> "human", content |-> content, tool_calls |-> << >>, tool_call_id |-> << >>]

AIMessage(content, calls) ==
    [type |-> "ai", content |-> content, tool_calls |-> calls, tool_call_id |-> << >>]

ToolMessage(content, id) ==
    [type |-> "tool", content |-> content, tool_calls |-> << >>, tool_call_id |-> id]

(***************************************************************************)
(* Session driver (main).                                                  *)
(***************************************************************************)
ExitWords == {"exit", "quit", "bye"}

\* the state dict of lines 384-393
Init ==
    /\ pc = "input"
    /\ messages = << >>
    /\ current_query = ""
    /\ selected_tools = << >>
    /\ tool_results = << >>
    /\ final_response = ""
    /\ iteration_count = 0
    /\ max_iterations = DriverBudget
    /\ is_complex_query = FALSE
    /\ search_results = << >>
    /\ last_outcomes = << >>
    /\ turn_error = FALSE
    /\ previous_turn = "none"

\* lines 395-398: input(...).strip() is one of the exit words: break
user_exit(line) ==
    /\ pc \in {"input", "END"}
    /\ Lower(Strip(line)) \in ExitWords
    /\ pc' = "exited"
    /\ UNCHANGED <<messages, current_query, selected_tools, tool_results, final_response,
                   iteration_count, max_iterations, is_complex_query, search_results,
                   last_outcomes, turn_error, previous_turn>>

\* how the turn that the driver has just left ended
TurnOutcome ==
    IF pc = "END" THEN "completed"
    ELSE IF turn_error THEN "aborted"
    ELSE "none"

\* lines 396-416 with the mutation that updates the dict of the turn before instead of
\* building a new one
user_query_reuses_state(line) ==
    /\ pc \in {"input", "END"}
    /\ Lower(Strip(line)) \notin ExitWords
    /\ pc' = "query_analysis"
    /\ messages' = Append(messages, HumanMessage(Strip(line)))
    /\ current_query' = Strip(line)
    /\ turn_error' = FALSE
    /\ previous_turn' = TurnOutcome
    /\ UNCHANGED <<selected_tools, tool_results, final_response, iteration_count,
                   max_iterations, is_complex_query, search_results, last_outcomes>>

\* lines 396-416 with the mutation that compares the input without lower()
user_query_case_sensitive(line) ==
    /\ pc \in {"input", "END"}
    /\ Strip(line) \notin ExitWords
    /\ pc' = "query_analysis"
    /\ messages' = << HumanMessage(Strip(line)) >>
    /\ current_query' = Strip(line)
    /\ selected_tools' = << >>
    /\ tool_results' = << >>
    /\ final_response' = ""
    /\ iteration_count' = 0
    /\ max_iterations' = DriverBudget
    /\ is_complex_query' = FALSE
    /\ search_results' = << >>
    /\ last_outcomes' = << >>
    /\ turn_error' = FALSE
    /\ previous_turn' = TurnOutcome

\* lines 396-416 with the mutation that leaves final_response out of the new dict
user_query_keeps_response(line) ==
    /\ pc \in {"input", "END"}
    /\ Lower(Strip(line)) \notin ExitWords
    /\ pc' = "query_analysis"
    /\ messages' = << HumanMessage(Strip(line)) >>
    /\ current_query' = Strip(line)
    /\ selected_tools' = << >>
    /\ tool_results' = << >>
    /\ iteration_count' = 0
    /\ max_iterations' = DriverBudget
    /\ is_complex_query' = FALSE
    /\ search_results' = << >>
    /\ last_outcomes' = << >>
    /\ turn_error' = FALSE
    /\ previous_turn' = TurnOutcome
    /\ UNCHANGED final_response

\* lines 396-416: any other input resets the state and enters the graph
user_query(line) ==
    /\ pc \in {"input", "END"}
    /\ Lower(Strip(line)) \notin ExitWords
    /\ pc' = "query_analysis"
    /\ messages' = << HumanMessage(Strip(line)) >>
    /\ current_query' = Strip(line)
    /\ selected_tools' = << >>
    /\ tool_results' = << >>
    /\ final_response' = ""
    /\ iteration_count' = 0
    /\ max_iterations' = DriverBudget
    /\ is_complex_query' = FALSE
    /\ search_results' = << >>
    /\ last_outcomes' = << >>
    /\ turn_error' = FALSE
    /\ previous_turn' = TurnOutcome

(***************************************************************************)
(* Query analysis (query_analysis_node).                                   *)
(***************************************************************************)
complex_indicators == << " and ", " then ", " after ", " next " >>

\* lines 137-139
IsComplex(query) == ContainsAny(complex_indicators, Lower(query))

\* line 153 with the budgets swapped
BudgetSwapped(is_complex) == IF is_complex THEN SimpleBudget ELSE ComplexBudget

\* line 153: 5 if is_complex else 10
Budget(is_complex) == IF is_complex THEN ComplexBudget ELSE SimpleBudget

\* query_analysis_node; store.search ranks at most `limit` keys of pool
query_analysis_node(pool) ==
    /\ pc = "query_analysis"
    /\ \E results \in Rankings(pool, DefaultLimit) :
          /\ search_results' = results
          /\ selected_tools' =
                 retrieve_relevant_tools(current_query, results, DefaultLimit)
    /\ iteration_count' = 0
    /\ max_iterations' = Budget(IsComplex(current_query))
    /\ is_complex_query' = IsComplex(current_query)
    /\ pc' = "tool_execution"
    /\ previous_turn' = "none"
    /\ UNCHANGED <<messages, current_query, tool_results, final_response,
                   last_outcomes, turn_error>>

(***************************************************************************)
(* Selector runs: the driver reads a query and query analysis selects.     *)
(***************************************************************************)
SelLines ==
    { "create a branch and then open a PR",
      "set repository test-folder",
      "and create a branch",
      "list issues then",
      "Create Branch AND Commit",
      "list my workflows",
      "open file in vscode",
      "  what comes NEXT for this user  ",
      "hello",
      "Quit" }

SelNext ==
    \/ \E line \in SelLines : user_exit(line)
    \/ \E line \in SelLines : user_query(line)
    \/ query_analysis_node(Pool(SelPoolSize))

SelSpec == Init /\ [][SelNext]_vars

(***************************************************************************)
(* tool_results: a Python dict, which keeps its keys in insertion order.   *)
(***************************************************************************)
Keys(d) == [i \in 1..Len(d) |-> d[i].name]

HasKey(d, k) == \E i \in 1..Len(d) : d[i].name = k

\* d[k]
Get(d, k) == d[CHOOSE i \in 1..Len(d) : d[i].name = k].result

\* d[k] = v with the mutation d.setdefault(k, v): a present key keeps its value
SetItemKeepFirst(d, k, v) ==
    IF HasKey(d, k) THEN d
    ELSE Append(d, [name |-> k, result |-> v])

\* d[k] = v: a present key keeps its position, a new key goes last
SetItem(d, k, v) ==
    IF HasKey(d, k)
    THEN [i \in 1..Len(d) |-> IF d[i].name = k THEN [name |-> k, result |-> v] ELSE d[i]]
    ELSE Append(d, [name |-> k, result |-> v])

(***************************************************************************)
(* Continuation predicate (should_continue).                               *)
(***************************************************************************)
continue_indicators ==
    << "next", "then", "now i will", "i need to", "let me",
       "should", "will now", "going to", "need to check" >>

incomplete_indicators ==
    << "does not exist", "not found", "failed", "error",
       "next step", "need to", "should create", "empty", "no repository selected" >>

\* line 280 with `>` for `>=`
BudgetSpentOffByOne(count, max) == count > max

\* line 280: iteration_count >= max_iterations
BudgetSpent(count, max) == count >= max

\* line 284 with the mutation that never takes the branch
NoResultsIgnored(results) == FALSE

\* line 284: not state["tool_results"]
NoResults(results) == Len(results) = 0

\* lines 287-298 with the mutation that reads the last message only when the model
\* wrote it
LastMessageContinuesReplyOnly(msgs) ==
    /\ Len(msgs) > 0
    /\ msgs[Len(msgs)].type = "ai"
    /\ Len(msgs[Len(msgs)].content) > 0
    /\ ContainsAny(continue_indicators, Lower(msgs[Len(msgs)].content))

\* lines 287-298: the last message has content naming more work
LastMessageContinues(msgs) ==
    /\ Len(msgs) > 0
    /\ Len(msgs[Len(msgs)].content) > 0
    /\ ContainsAny(continue_indicators, Lower(msgs[Len(msgs)].content))

\* lines 300-308: the last value of tool_results reads as incomplete
LastResultIncomplete(results) ==
    /\ Len(results) > 0
    /\ ContainsAny(incomplete_indicators, Lower(results[Len(results)].result))

\* should_continue with the mutation that tests the budget after the other rules
should_continue_budget_last(count, max, results, msgs) ==
    IF NoResults(results) THEN "tool_execution"
    ELSE IF LastMessageContinues(msgs) THEN "tool_execution"
    ELSE IF LastResultIncomplete(results) THEN "tool_execution"
    ELSE "response_generation"

\* should_continue with the mutation that returns "tool_execution" at line 310
should_continue_never_settles(count, max, results, msgs) ==
    IF BudgetSpent(count, max) THEN "response_generation"
    ELSE "tool_execution"

\* should_continue with the mutation that consults what an earlier pass left behind
\* outside the state it is given
should_continue_stateful(count, max, results, msgs) ==
    IF BudgetSpent(count, max) THEN "response_generation"
    ELSE IF Len(last_outcomes) > 0 THEN "tool_execution"
    ELSE IF NoResults(results) THEN "tool_execution"
    ELSE IF LastMessageContinues(msgs) THEN "tool_execution"
    ELSE IF LastResultIncomplete(results) THEN "tool_execution"
    ELSE "response_generation"

\* should_continue
should_continue(count, max, results, msgs) ==
    IF BudgetSpent(count, max) THEN "response_generation"
    ELSE IF NoResults(results) THEN "tool_execution"
    ELSE IF LastMessageContinues(msgs) THEN "tool_execution"
    ELSE IF LastResultIncomplete(results) THEN "tool_execution"
    ELSE "response_generation"

(***************************************************************************)
(* Tool execution (tool_execution_node).                                   *)
(***************************************************************************)
\* what awaiting a registered tool may do: return a text or raise
ToolOutcomes ==
    { [kind |-> "return", text |-> "Branch created"],
      [kind |-> "return", text |-> "Branch next created"],
      [kind |-> "return", text |-> "Branch Not Found"],
      [kind |-> "raise", text |-> "connection reset"] }

\* a name outside the registry is never invoked
NotInvoked == [kind |-> "not_found", text |-> ""]

\* the names the model proposes: two registered tools and the prompt's set_repository
ProposalNames == {"create_branch", "list_issues", "set_repository"}

\* a reply that proposes no invocation and reads as finished
DoneReply == "The work is complete."

\* a reply that proposes no invocation and announces more work
NudgeReply == "Let me look at that"

\* number of replies of the turn that announced more work
Nudges(msgs) ==
    Cardinality({i \in 1..Len(msgs) :
                     msgs[i].type = "ai" /\ msgs[i].content = NudgeReply})

\* number of invocations proposed so far in the turn
CallsMade(msgs) ==
    Cardinality({p \in (1..Len(msgs)) \X (1..MaxBatch) :
                     p[2] <= Len(msgs[p[1]].tool_calls)})

\* the replies llm_with_tools.ainvoke may return after `made` invocations and `nudged`
\* announcements in the turn, of at most `calls` and `nudges`; ids number the turn's
\* invocations
Replies(made, nudged, calls, nudges) ==
    {AIMessage(DoneReply, << >>)}
    \cup {AIMessage(NudgeReply, << >>) : n \in 1..(nudges - nudged)}
    \cup {AIMessage("", [i \in 1..Len(names) |-> [name |-> names[i], id |-> made + i]]) :
              names \in UNION {[1..n -> ProposalNames] :
                                  n \in 1..Min(MaxBatch, calls - made)}}

\* one outcome per proposed invocation
OutcomesFor(calls) ==
    {o \in [1..Len(calls) -> ToolOutcomes \cup {NotInvoked}] :
        \A i \in 1..Len(calls) :
            (calls[i].name \in tool_registry) <=> (o[i] # NotInvoked)}

\* lines 165-170: the digest of earlier results
Context(results) ==
    [i \in 1..Len(results) |->
        [name |-> results[i].name, preview |-> Take(results[i].result, PreviewLen)]]

\* lines 172-189: what the planning prompt is built from
PlanningPrompt(query, tools, count, max, results) ==
    [query |-> query, tools |-> tools, iteration |-> count + 1, max |-> max,
     context |-> Context(results)]

\* lines 225-228 with the mutation that records nothing for an unknown name
ExecCallUnknownSilent(acc, call, outcome) ==
    IF call.name \in tool_registry
    THEN IF outcome.kind = "return"
         THEN [acc EXCEPT !.tool_results = SetItem(@, call.name, outcome.text),
                          !.messages = Append(@, ToolMessage(outcome.text, call.id))]
         ELSE [acc EXCEPT !.tool_results =
                   SetItem(@, call.name,
                           "Error executing " \o call.name \o ": " \o outcome.text)]
    ELSE acc

\* lines 230-233 with the mutation `except Exception: pass`
ExecCallFaultSilent(acc, call, outcome) ==
    IF call.name \in tool_registry
    THEN IF outcome.kind = "return"
         THEN [acc EXCEPT !.tool_results = SetItem(@, call.name, outcome.text),
                          !.messages = Append(@, ToolMessage(outcome.text, call.id))]
         ELSE acc
    ELSE [acc EXCEPT !.tool_results =
                         SetItem(@, call.name, "Tool " \o call.name \o " not found")]

\* lines 219-222 with the mutation that puts the tool message at the head of the list
ExecCallPrepends(acc, call, outcome) ==
    IF call.name \in tool_registry
    THEN IF outcome.kind = "return"
         THEN [acc EXCEPT !.tool_results = SetItem(@, call.name, outcome.text),
                          !.messages = << ToolMessage(outcome.text, call.id) >> \o @]
         ELSE [acc EXCEPT !.tool_results =
                   SetItem(@, call.name,
                           "Error executing " \o call.name \o ": " \o outcome.text)]
    ELSE [acc EXCEPT !.tool_results =
                         SetItem(@, call.name, "Tool " \o call.name \o " not found")]

\* lines 202-233: one proposed invocation
ExecCall(acc, call, outcome) ==
    IF call.name \in tool_registry
    THEN IF outcome.kind = "return"
         THEN [acc EXCEPT !.tool_results = SetItem(@, call.name, outcome.text),
                          !.messages = Append(@, ToolMessage(outcome.text, call.id))]
         ELSE [acc EXCEPT !.tool_results =
                   SetItem(@, call.name,
                           "Error executing " \o call.name \o ": " \o outcome.text)]
    ELSE [acc EXCEPT !.tool_results =
                         SetItem(@, call.name, "Tool " \o call.name \o " not found")]

RECURSIVE ExecBatchBackwards(_, _, _, _)
\* lines 200-233 with the mutation that walks response.tool_calls from its end
ExecBatchBackwards(acc, calls, outcomes, i) ==
    IF i > Len(calls) THEN acc
    ELSE ExecCall(ExecBatchBackwards(acc, calls, outcomes, i + 1), calls[i], outcomes[i])

RECURSIVE ExecBatch(_, _, _, _)
\* lines 200-233: the for loop over response.tool_calls, from the i-th call on
ExecBatch(acc, calls, outcomes, i) ==
    IF i > Len(calls) THEN acc
    ELSE ExecBatch(ExecCall(acc, calls[i], outcomes[i]), calls, outcomes, i + 1)

\* line 241 with the mutation that counts the invocations of the reply
IterationPerInvocation(count, calls) == count + Len(calls)

\* line 241: state["iteration_count"] + 1, whatever the reply's tool_calls
IterationAfterPass(count, calls) == count + 1

\* tool_execution_node returning, then the conditional edge of build_graph
tool_execution_node(calls, nudges) ==
    /\ pc = "tool_execution"
    /\ \E response \in Replies(CallsMade(messages), Nudges(messages), calls, nudges) :
       \E outcomes \in OutcomesFor(response.tool_calls) :
       \E end \in {ExecBatch([tool_results |-> tool_results,
                              messages |-> messages \o
                                  << HumanMessage(PlanningPrompt(
                                         current_query, selected_tools, iteration_count,
                                         max_iterations, tool_results)),
                                     response >>],
                             response.tool_calls, outcomes, 1)} :
             /\ messages' = end.messages
             /\ tool_results' = end.tool_results
             /\ iteration_count' = IterationAfterPass(iteration_count, response.tool_calls)
             /\ last_outcomes' = outcomes
             /\ pc' = should_continue(IterationAfterPass(iteration_count,
                                                         response.tool_calls),
                                      max_iterations,
                                      end.tool_results, end.messages)
    /\ UNCHANGED <<current_query, selected_tools, final_response, max_iterations,
                   is_complex_query, search_results, turn_error, previous_turn>>

(***************************************************************************)
(* Response generation (response_generation_node).                         *)
(***************************************************************************)
\* lines 248-250 with the mutation that drops the test `not state["tool_results"]`
SummaryTextNoNotice(results) ==
    [i \in 1..Len(results) |-> "**" \o results[i].name \o "**: " \o results[i].result]

\* lines 248-250: the lines of summary_text, which "\n".join puts together
SummaryText(results) ==
    IF Len(results) = 0 THEN << "No tools executed." >>
    ELSE [i \in 1..Len(results) |-> "**" \o results[i].name \o "**: " \o results[i].result]

\* lines 252-264: what the final prompt is built from
FinalPrompt(query, results) == [query |-> query, summary |-> SummaryText(results)]

\* the content self.llm.ainvoke may return for the final prompt
FinalReplies == {"Summary of the work"}

\* response_generation_node with the mutation that gives its node an edge back into the
\* loop (line 330)
response_generation_node_reenters ==
    /\ pc = "response_generation"
    /\ \E content \in FinalReplies :
          /\ final_response' = content
          /\ messages' = messages \o << HumanMessage(FinalPrompt(current_query, tool_results)),
                                        AIMessage(content, << >>) >>
    /\ pc' = "tool_execution"
    /\ UNCHANGED <<current_query, selected_tools, tool_results, iteration_count,
                   max_iterations, is_complex_query, search_results, last_outcomes,
                   turn_error, previous_turn>>

\* response_generation_node with the mutation that returns its two keys without
\* **state (line 272)
response_generation_node_drops_state ==
    /\ pc = "response_generation"
    /\ \E content \in FinalReplies :
          /\ final_response' = content
          /\ messages' = messages \o << HumanMessage(FinalPrompt(current_query, tool_results)),
                                        AIMessage(content, << >>) >>
    /\ pc' = "END"
    /\ current_query' = ""
    /\ selected_tools' = << >>
    /\ max_iterations' = DriverBudget
    /\ UNCHANGED <<tool_results, iteration_count, is_complex_query, search_results,
                   last_outcomes, turn_error, previous_turn>>

\* response_generation_node returning, then the edge to END: graph.ainvoke returns,
\* main prints the result (line 417) and asks for the next query
response_generation_node ==
    /\ pc = "response_generation"
    /\ \E content \in FinalReplies :
          /\ final_response' = content
          /\ messages' = messages \o << HumanMessage(FinalPrompt(current_query, tool_results)),
                                        AIMessage(content, << >>) >>
    /\ pc' = "END"
    /\ UNCHANGED <<current_query, selected_tools, tool_results, iteration_count,
                   max_iterations, is_complex_query, search_results, last_outcomes,
                   turn_error, previous_turn>>

\* lines 197 and 269 with the mutation that appends the node's prompt to the list of
\* the state itself instead of a copy
model_fault_without_copy ==
    /\ pc \in {"tool_execution", "response_generation"}
    /\ pc' = "raised"
    /\ messages' =
           Append(messages,
                  IF pc = "tool_execution"
                  THEN HumanMessage(PlanningPrompt(current_query, selected_tools,
                                                   iteration_count, max_iterations,
                                                   tool_results))
                  ELSE HumanMessage(FinalPrompt(current_query, tool_results)))
    /\ last_outcomes' = << >>
    /\ UNCHANGED <<current_query, selected_tools, tool_results, final_response,
                   iteration_count, max_iterations, is_complex_query, search_results,
                   turn_error, previous_turn>>

\* an ainvoke of the model raises (lines 197, 269): the fault leaves the node, which
\* had worked on copies (lines 161-162, 266), and leaves graph.ainvoke; the state that
\* was passed into the node is as it was
model_fault ==
    /\ pc \in {"tool_execution", "response_generation"}
    /\ pc' = "raised"
    /\ last_outcomes' = << >>
    /\ UNCHANGED <<messages, current_query, selected_tools, tool_results, final_response,
                   iteration_count, max_iterations, is_complex_query, search_results,
                   turn_error, previous_turn>>

\* lines 418-419 with the mutation that turns the fault into the turn's final response
main_except_answered ==
    /\ pc = "raised"
    /\ pc' = "input"
    /\ turn_error' = TRUE
    /\ messages' = << HumanMessage(current_query) >>
    /\ selected_tools' = << >>
    /\ tool_results' = << >>
    /\ final_response' = "model unavailable"
    /\ iteration_count' = 0
    /\ max_iterations' = DriverBudget
    /\ is_complex_query' = FALSE
    /\ search_results' = << >>
    /\ last_outcomes' = << >>
    /\ UNCHANGED <<current_query, previous_turn>>

\* lines 418-419: main's except branch reports the fault; the graph's state is dropped,
\* main is left with the dict it passed in (lines 404-413) and goes back to input()
main_except ==
    /\ pc = "raised"
    /\ pc' = "input"
    /\ turn_error' = TRUE
    /\ messages' = << HumanMessage(current_query) >>
    /\ selected_tools' = << >>
    /\ tool_results' = << >>
    /\ final_response' = ""
    /\ iteration_count' = 0
    /\ max_iterations' = DriverBudget
    /\ is_complex_query' = FALSE
    /\ search_results' = << >>
    /\ last_outcomes' = << >>
    /\ UNCHANGED <<current_query, previous_turn>>

(***************************************************************************)
(* Whole turns.                                                            *)
(***************************************************************************)
TurnLines ==
    { "create a branch and then open a PR",
      " EXIT " }

Next ==
    \/ \E line \in TurnLines : user_exit(line)
    \/ \E line \in TurnLines : user_query(line)
    \/ query_analysis_node(Pool(TurnPoolSize))
    \/ tool_execution_node(MaxCalls, MaxNudges)
    \/ response_generation_node
    \/ model_fault
    \/ main_except

Spec == Init /\ [][Next]_vars

LiveLines ==
    { "create a branch and then open a PR",
      "list issues",
      "hello",
      " EXIT " }

\* turns in which every call of the model returns
NextReturning ==
    \/ \E line \in LiveLines : user_exit(line)
    \/ \E line \in LiveLines : user_query(line)
    \/ query_analysis_node(Pool(TurnPoolSize))
    \/ tool_execution_node(LiveCalls, LiveNudges)
    \/ response_generation_node

\* the graph runs a node whenever one is due; the user may stay silent
LiveSpec ==
    /\ Init
    /\ [][NextReturning]_vars
    /\ WF_vars(query_analysis_node(Pool(TurnPoolSize)))
    /\ WF_vars(tool_execution_node(LiveCalls, LiveNudges))
    /\ WF_vars(response_generation_node)

\* turns long enough for a tool to run again after another tool ran
ReplayNext ==
    \/ \E line \in TurnLines : user_exit(line)
    \/ \E line \in TurnLines : user_query(line)
    \/ query_analysis_node(Pool(TurnPoolSize))
    \/ tool_execution_node(ReplayCalls, MaxNudges)
    \/ response_generation_node

ReplaySpec == Init /\ [][ReplayNext]_vars

(***************************************************************************)
(* Server tools (src/g_server_new.py). The emoji that open the tools'       *)
(* texts are written as ASCII tokens, one per emoji; the bullet of          *)
(* list_branches is written "*". None is written "". A tool's return is    *)
(* its text together with the remote and local calls it made, in order.    *)
(***************************************************************************)
\* the cross mark
FailureMarker == "[x]"
\* the check mark
SuccessMarker == "[ok]"
\* the clipboard
ListMarker == "[list]"
\* the information sign
InfoMarker == "[i]"

\* line 45: the token of the configuration
GITHUB_TOKEN == "TOKEN"

\* str(e) of an exception raised by a remote or local call
FaultText == "502 Bad Gateway"

\* the calls that reach the GitHub API
RemoteCalls ==
    {"get_repo", "get_branches", "get_branch", "create_git_ref", "get_git_ref",
     "delete_git_ref", "create_file", "delete_repo"}

\* the calls that change the local filesystem or a local repository
LocalMutations == {"git_add", "index_commit", "rmtree", "clone_from", "subprocess_run"}

\* a return statement reached after the calls `effects`
Returned(text, effects) == [kind |-> "return", text |-> text, effects |-> effects]

RECURSIVE Join(_, _)
\* sep.join(parts)
Join(parts, sep) ==
    IF Len(parts) = 0 THEN ""
    ELSE IF Len(parts) = 1 THEN parts[1]
    ELSE parts[1] \o sep \o Join(Tail(parts), sep)

RECURSIVE MissingParams(_, _)
\* the list missing_params: the names whose value is falsy
MissingParams(names, values) ==
    IF Len(names) = 0 THEN << >>
    ELSE (IF Head(values) = "" THEN << Head(names) >> ELSE << >>)
         \o MissingParams(Tail(names), Tail(values))

\* the return for a non-empty missing_params
MissingReturn(missing_params) ==
    Returned(FailureMarker \o " Missing required parameters: "
             \o Join(missing_params, ", "), << >>)

\* github_greeter
github_greeter(name) ==
    Returned("Hello, " \o name \o "! Welcome to the GitHub automation tool.", << >>)

\* list_branches; `remote` is what get_repo_instance and get_branches do: they give the
\* branch names, or get_repo_instance raises
list_branches(owner, repo_name, remote) ==
    IF owner = "" \/ repo_name = ""
    THEN Returned(FailureMarker \o " Missing required parameters: owner, repo_name", << >>)
    ELSE IF remote.kind = "raise"
    THEN Returned(FailureMarker \o " Error listing branches: " \o remote.text,
                  << "get_repo" >>)
    ELSE IF Len(remote.branches) = 0
    THEN Returned("No branches found in repository.", << "get_repo", "get_branches" >>)
    ELSE Returned(Join(<< ListMarker \o " Repository Branches:" >>
                       \o [i \in 1..Len(remote.branches) |->
                              "  * " \o remote.branches[i]]
                       \o << "\nTotal: " \o ToString(Len(remote.branches))
                             \o " branches" >>,
                       "\n"),
                  << "get_repo", "get_branches" >>)

\* create_branch; `existing_branches` is what repo.get_branches gives and `faulty` the
\* call that raises, "" when none does
create_branch(owner, repo_name, new_branch, base_branch, existing_branches, faulty) ==
    LET missing_params == MissingParams(<< "owner", "repo_name", "new_branch" >>,
                                        << owner, repo_name, new_branch >>)
        Error(effects) ==
            Returned(FailureMarker \o " Error creating branch: " \o FaultText, effects)
    IN IF Len(missing_params) > 0 THEN MissingReturn(missing_params)
       ELSE IF faulty = "get_repo" THEN Error(<< "get_repo" >>)
       ELSE IF faulty = "get_branches" THEN Error(<< "get_repo", "get_branches" >>)
       ELSE IF InSeq(new_branch, existing_branches)
       THEN Returned(FailureMarker \o " Branch '" \o new_branch \o "' already exists.",
                     << "get_repo", "get_branches" >>)
       ELSE IF faulty = "get_branch"
       THEN Error(<< "get_repo", "get_branches", "get_branch" >>)
       ELSE IF faulty = "create_git_ref"
       THEN Error(<< "get_repo", "get_branches", "get_branch", "create_git_ref" >>)
       ELSE Returned(SuccessMarker \o " Branch '" \o new_branch
                     \o "' created successfully from '" \o base_branch \o "'.",
                     << "get_repo", "get_branches", "get_branch", "create_git_ref" >>)

\* delete_branch with the mutation that drops the test of the protected names
delete_branch_unprotected(owner, repo_name, branch_name, faulty) ==
    LET missing_params == MissingParams(<< "owner", "repo_name", "branch_name" >>,
                                        << owner, repo_name, branch_name >>)
        Error(effects) ==
            Returned(FailureMarker \o " Error deleting branch: " \o FaultText, effects)
    IN IF Len(missing_params) > 0 THEN MissingReturn(missing_params)
       ELSE IF faulty = "get_repo" THEN Error(<< "get_repo" >>)
       ELSE IF faulty = "get_git_ref" THEN Error(<< "get_repo", "get_git_ref" >>)
       ELSE IF faulty = "delete_git_ref"
       THEN Error(<< "get_repo", "get_git_ref", "delete_git_ref" >>)
       ELSE Returned(SuccessMarker \o " Branch '" \o branch_name
                     \o "' deleted successfully.",
                     << "get_repo", "get_git_ref", "delete_git_ref" >>)

\* delete_branch; `faulty` is the call that raises, "" when none does
delete_branch(owner, repo_name, branch_name, faulty) ==
    LET missing_params == MissingParams(<< "owner", "repo_name", "branch_name" >>,
                                        << owner, repo_name, branch_name >>)
        Error(effects) ==
            Returned(FailureMarker \o " Error deleting branch: " \o FaultText, effects)
    IN IF Len(missing_params) > 0 THEN MissingReturn(missing_params)
       ELSE IF faulty = "get_repo" THEN Error(<< "get_repo" >>)
       ELSE IF branch_name \in {"main", "master"}
       THEN Returned(FailureMarker \o " Cannot delete protected branch '"
                     \o branch_name \o "'", << "get_repo" >>)
       ELSE IF faulty = "get_git_ref" THEN Error(<< "get_repo", "get_git_ref" >>)
       ELSE IF faulty = "delete_git_ref"
       THEN Error(<< "get_repo", "get_git_ref", "delete_git_ref" >>)
       ELSE Returned(SuccessMarker \o " Branch '" \o branch_name
                     \o "' deleted successfully.",
                     << "get_repo", "get_git_ref", "delete_git_ref" >>)

\* create_file; `faulty` is the call that raises, "" when none does
create_file(owner, repo_name, path, message, content, branch, faulty) ==
    LET missing_params ==
            MissingParams(<< "owner", "repo_name", "path", "message", "content" >>,
                          << owner, repo_name, path, message, content >>)
        Error(effects) ==
            Returned(FailureMarker \o " Error creating file: " \o FaultText, effects)
    IN IF Len(missing_params) > 0 THEN MissingReturn(missing_params)
       ELSE IF faulty = "get_repo" THEN Error(<< "get_repo" >>)
       ELSE IF faulty = "create_file" THEN Error(<< "get_repo", "create_file" >>)
       ELSE Returned(SuccessMarker \o " File '" \o path
                     \o "' created successfully on branch '" \o branch \o "'.",
                     << "get_repo", "create_file" >>)

\* delete_repository with the mutation that drops the test of missing_params
delete_repository_unchecked(owner, repo_name, faulty) ==
    LET Error(effects) ==
            Returned(FailureMarker \o " Error deleting repository: " \o FaultText, effects)
    IN IF faulty = "get_repo" THEN Error(<< "get_repo" >>)
       ELSE IF faulty = "delete_repo" THEN Error(<< "get_repo", "delete_repo" >>)
       ELSE Returned(SuccessMarker \o " Repository '" \o owner \o "/" \o repo_name
                     \o "' deleted successfully", << "get_repo", "delete_repo" >>)

\* delete_repository; `faulty` is the call that raises, "" when none does
delete_repository(owner, repo_name, faulty) ==
    LET missing_params == MissingParams(<< "owner", "repo_name" >>,
                                        << owner, repo_name >>)
        Error(effects) ==
            Returned(FailureMarker \o " Error deleting repository: " \o FaultText, effects)
    IN IF Len(missing_params) > 0 THEN MissingReturn(missing_params)
       ELSE IF faulty = "get_repo" THEN Error(<< "get_repo" >>)
       ELSE IF faulty = "delete_repo" THEN Error(<< "get_repo", "delete_repo" >>)
       ELSE Returned(SuccessMarker \o " Repository '" \o owner \o "/" \o repo_name
                     \o "' deleted successfully", << "get_repo", "delete_repo" >>)

\* url.split("/")[-1]
AfterLastSlash(s) ==
    LET slashes == {i \in 1..Len(s) : SubSeq(s, i, i) = "/"}
    IN IF slashes = {} THEN s
       ELSE SubSeq(s, (CHOOSE i \in slashes : \A j \in slashes : j <= i) + 1, Len(s))

RECURSIVE RemoveAll(_, _)
\* s.replace(sub, "")
RemoveAll(s, sub) ==
    IF Len(s) < Len(sub) THEN s
    ELSE IF SubSeq(s, 1, Len(sub)) = sub
    THEN RemoveAll(SubSeq(s, Len(sub) + 1, Len(s)), sub)
    ELSE SubSeq(s, 1, 1) \o RemoveAll(SubSeq(s, 2, Len(s)), sub)

\* clone_repo_logic with the mutation that clones without removing the directory first
clone_repo_logic_keeps_dir(url, owner, repo_name, local_path, branch, dir, rmtree, clone) ==
    IF url = "" /\ (owner = "" \/ repo_name = "")
    THEN [result |-> Returned(FailureMarker \o " Missing required parameters: either "
                              \o "'url' OR ('owner' and 'repo_name')", << >>),
          dir |-> dir]
    ELSE IF clone = "raise" \/ dir # "absent"
    THEN [result |-> Returned(FailureMarker \o " Error cloning repository: " \o FaultText,
                              << "clone_from" >>),
          dir |-> dir]
    ELSE [result |-> Returned(SuccessMarker \o " Repository cloned successfully to '"
                              \o (IF local_path = ""
                                  THEN "./" \o (IF repo_name = ""
                                                THEN RemoveAll(AfterLastSlash(url), ".git")
                                                ELSE repo_name)
                                  ELSE local_path)
                              \o "' on branch '" \o branch \o "'", << "clone_from" >>),
          dir |-> "cloned"]

\* clone_repo_logic; `dir` is what is at the target path ("absent", or "old" for a
\* directory with contents), `rmtree` what shutil.rmtree does ("removed", or it raises
\* with the directory "untouched" or "partial") and `clone` what clone_from does
\* ("cloned", or "raise", which leaves no directory); the result is the return and
\* what is at the target path afterwards
clone_repo_logic(url, owner, repo_name, local_path, branch, dir, rmtree, clone) ==
    IF url = "" /\ (owner = "" \/ repo_name = "")
    THEN [result |-> Returned(FailureMarker \o " Missing required parameters: either "
                              \o "'url' OR ('owner' and 'repo_name')", << >>),
          dir |-> dir]
    ELSE
    LET url_built == IF url = ""
                     THEN "https://" \o GITHUB_TOKEN \o "@github.com/" \o owner \o "/"
                          \o repo_name \o ".git"
                     ELSE url
        repo_name_used == IF repo_name = ""
                          THEN RemoveAll(AfterLastSlash(url_built), ".git")
                          ELSE repo_name
        local_path_used == IF local_path = "" THEN "./" \o repo_name_used ELSE local_path
        Error(effects) ==
            Returned(FailureMarker \o " Error cloning repository: " \o FaultText, effects)
        removal == IF dir = "absent" THEN << "path_exists" >>
                   ELSE << "path_exists", "rmtree" >>
    IN IF dir # "absent" /\ rmtree # "removed"
       THEN [result |-> Error(removal),
             dir |-> IF rmtree = "untouched" THEN dir ELSE "partial"]
       ELSE IF clone = "raise"
       THEN [result |-> Error(removal \o << "clone_from" >>), dir |-> "absent"]
       ELSE [result |-> Returned(SuccessMarker \o " Repository cloned successfully to '"
                                 \o local_path_used \o "' on branch '" \o branch \o "'",
                                 removal \o << "clone_from" >>),
             dir |-> "cloned"]

\* clone_repository
clone_repository(url, owner, repo_name, local_path, branch, dir, rmtree, clone) ==
    clone_repo_logic(url, owner, repo_name, local_path, branch, dir, rmtree, clone)

\* commit_changes; `cloned` is os.path.exists(local_path), `local` is what the git
\* calls do: they find changes, find none, or git.Repo raises
commit_changes(repo_name, message, cloned, local) ==
    LET missing_params == MissingParams(<< "repo_name", "message" >>,
                                        << repo_name, message >>)
        local_path == "./" \o repo_name
    IN IF Len(missing_params) > 0 THEN MissingReturn(missing_params)
       ELSE IF ~cloned
       THEN Returned(FailureMarker \o " Repository not found locally at '" \o local_path
                     \o "'. Please clone first using 'clone_repository'.",
                     << "path_exists" >>)
       ELSE IF local.kind = "raise"
       THEN Returned(FailureMarker \o " Error committing changes: " \o local.text,
                     << "path_exists", "open_repo" >>)
       ELSE IF local.kind = "changes"
       THEN Returned(SuccessMarker \o " Changes committed successfully with message: '"
                     \o message \o "'",
                     << "path_exists", "open_repo", "git_add", "index_diff",
                        "index_commit" >>)
       ELSE Returned(InfoMarker \o " No changes to commit",
                     << "path_exists", "open_repo", "git_add", "index_diff" >>)

\* the blank-separated words of s
Words(s) ==
    LET starts == {i \in 1..Len(s) :
                      SubSeq(s, i, i) # " " /\ (i = 1 \/ SubSeq(s, i - 1, i - 1) = " ")}
        EndOf(i) == CHOOSE j \in i..Len(s) :
                        /\ \A k \in i..j : SubSeq(s, k, k) # " "
                        /\ (j = Len(s) \/ SubSeq(s, j + 1, j + 1) = " ")
    IN {SubSeq(s, i, EndOf(i)) : i \in starts}

\* extract_file_name_simple for texts of letters, digits, dots and blanks with at most
\* one dotted word: the word with a dot inside, or "" for None
extract_file_name_simple(text) ==
    LET dotted == {w \in Words(text) :
                      \E i \in 2..(Len(w) - 1) : SubSeq(w, i, i) = "."}
    IN IF dotted = {} THEN "" ELSE CHOOSE w \in dotted : TRUE

\* open_in_vscode_simple; `launch` is what os.path.exists and subprocess.run do
open_in_vscode_simple(file_path, launch) ==
    IF launch = "gone"
    THEN Returned(FailureMarker \o " File not found: " \o file_path, << "path_exists" >>)
    ELSE IF launch = "nonzero"
    THEN Returned(FailureMarker \o " Failed to open VSCode.\nSTDOUT: \nSTDERR: ",
                  << "path_exists", "subprocess_run" >>)
    ELSE IF launch = "no_code"
    THEN Returned(FailureMarker \o " VSCode not installed. File found at: " \o file_path,
                  << "path_exists", "subprocess_run" >>)
    ELSE IF launch = "fault"
    THEN Returned(FailureMarker \o " Unexpected error: permission denied. File found at: "
                  \o file_path, << "path_exists", "subprocess_run" >>)
    ELSE Returned(SuccessMarker \o " VSCode launched for '" \o file_path \o "'",
                  << "path_exists", "subprocess_run" >>)

\* open_file_vscode; `found_files` is what search_file_locally returns
open_file_vscode(query, found_files, launch) ==
    IF query = ""
    THEN Returned("Missing required parameter: query", << >>)
    ELSE IF extract_file_name_simple(query) = ""
    THEN Returned("No file name detected. Please provide a file name (e.g., 'set.txt').",
                  << >>)
    ELSE IF Len(found_files) = 0
    THEN Returned("File '" \o extract_file_name_simple(query)
                  \o "' not found in current directory or subdirectories.",
                  << "os_walk" >>)
    ELSE [open_in_vscode_simple(found_files[1], launch)
              EXCEPT !.effects = << "os_walk" >> \o @]

\* what the remote API may do for list_branches
Remotes ==
    { [kind |-> "branches", branches |-> << >>, text |-> ""],
      [kind |-> "branches", branches |-> << "main", "dev" >>, text |-> ""],
      [kind |-> "raise", branches |-> << >>, text |-> "404 Not Found"] }

\* what the local git calls may do for commit_changes
Locals ==
    { [kind |-> "changes", text |-> ""],
      [kind |-> "clean", text |-> ""],
      [kind |-> "raise", text |-> "not a git repository"] }

\* one invocation: the tool, its arguments in the order of its signature, what its code
\* returns, whether the operation asked for was carried out, whether an argument it
\* needs was empty, and what is at the clone target before and after
Run(name, args, out, done, incomplete, dir_before, dir_after) ==
    [name |-> name, args |-> args, kind |-> out.kind, text |-> out.text,
     effects |-> out.effects, done |-> done, incomplete |-> incomplete,
     dir_before |-> dir_before, dir_after |-> dir_after]

\* the invocations of the tools
ToolRuns ==
    {Run("github_greeter", << n >>, github_greeter(n), TRUE, n = "", "", "") :
         n \in {"", "Ada"}}
    \cup {Run("list_branches", << o, r >>, list_branches(o, r, remote),
              o # "" /\ r # "" /\ remote.kind = "branches",
              o = "" \/ r = "", "", "") :
              o \in {"", "octo"}, r \in {"", "demo"}, remote \in Remotes}
    \cup {Run("create_branch", << o, r, b, "main" >>,
              create_branch(o, r, b, "main", << "main", "dev" >>, faulty),
              o # "" /\ r # "" /\ b = "feature" /\ faulty = "",
              o = "" \/ r = "" \/ b = "", "", "") :
              o \in {"", "octo"}, r \in {"", "demo"}, b \in {"", "dev", "feature"},
              faulty \in {"", "get_repo", "get_branches", "get_branch",
                          "create_git_ref"}}
    \cup {Run("delete_branch", << o, r, b >>, delete_branch(o, r, b, faulty),
              o # "" /\ r # "" /\ b = "dev" /\ faulty = "",
              o = "" \/ r = "" \/ b = "", "", "") :
              o \in {"", "octo"}, r \in {"", "demo"},
              b \in {"", "main", "master", "dev"},
              faulty \in {"", "get_repo", "get_git_ref", "delete_git_ref"}}
    \cup {Run("create_file", << o, r, p, m, c, "main" >>,
              create_file(o, r, p, m, c, "main", faulty),
              o # "" /\ r # "" /\ p # "" /\ m # "" /\ c # "" /\ faulty = "",
              o = "" \/ r = "" \/ p = "" \/ m = "" \/ c = "", "", "") :
              o \in {"", "octo"}, r \in {"", "demo"}, p \in {"", "a.txt"},
              m \in {"", "add"}, c \in {"", "x"},
              faulty \in {"", "get_repo", "create_file"}}
    \cup {Run("delete_repository", << o, r >>, delete_repository(o, r, faulty),
              o # "" /\ r # "" /\ faulty = "",
              o = "" \/ r = "", "", "") :
              o \in {"", "octo"}, r \in {"", "demo"},
              faulty \in {"", "get_repo", "delete_repo"}}
    \cup {Run("clone_repository", << u, o, r, lp, "main" >>,
              clone_repository(u, o, r, lp, "main", dir, rmtree, clone).result,
              (u # "" \/ (o # "" /\ r # ""))
                  /\ (dir = "absent" \/ rmtree = "removed") /\ clone = "cloned",
              u = "" /\ (o = "" \/ r = ""),
              dir,
              clone_repository(u, o, r, lp, "main", dir, rmtree, clone).dir) :
              u \in {"", "https://github.com/octo/demo.git"},
              o \in {"", "octo"}, r \in {"", "demo"}, lp \in {"", "./work"},
              dir \in {"absent", "old"},
              rmtree \in {"removed", "untouched", "partial"},
              clone \in {"cloned", "raise"}}
    \cup {Run("commit_changes", << r, m >>, commit_changes(r, m, cloned, local),
              r # "" /\ m # "" /\ cloned /\ local.kind # "raise",
              r = "" \/ m = "", "", "") :
              r \in {"", "demo"}, m \in {"", "fix"}, cloned \in BOOLEAN,
              local \in Locals}
    \cup {Run("open_file_vscode", << q >>, open_file_vscode(q, found, launch),
              q = "open file set.txt" /\ Len(found) > 0 /\ launch = "started",
              q = "", "", "") :
              q \in {"", "open it", "open file set.txt"},
              found \in {<< >>, << "./docs/set.txt" >>},
              launch \in {"gone", "nonzero", "no_code", "fault", "started"}}

\* a caller invokes a tool of the server and gets its return
tool_run ==
    /\ pc = "input"
    /\ \E run \in ToolRuns : last_outcomes' = << run >>
    /\ UNCHANGED <<pc, messages, current_query, selected_tools, tool_results,
                   final_response, iteration_count, max_iterations, is_complex_query,
                   search_results, turn_error, previous_turn>>

ToolSpec == Init /\ [][tool_run]_vars

(***************************************************************************)
(* Properties.                                                             *)
(***************************************************************************)
\* query analysis has run in the current turn
Analysed == pc \in {"tool_execution", "response_generation", "END"}

\* C1: in every state of a turn, and so at loop exit, iteration_count <= max_iterations
C1_IterationWithinBudget == iteration_count <= max_iterations

\* a turn that ended by spending its whole budget, kept going by a failed tool
C1_Witness ==
    /\ pc = "END"
    /\ iteration_count = max_iterations
    /\ iteration_count = ComplexBudget
    /\ Len(tool_results) > 0

\* C2: when every call returns, a turn that entered the graph reaches the end with a
\* final response written, after at most max_iterations executing passes
C2_TurnTerminates ==
    (pc = "query_analysis") ~> (pc = "END" /\ iteration_count <= max_iterations)

\* a turn of a simple query that ended although the model never proposed a tool:
\* every pass left tool_results empty and the budget ended the loop
C2_Witness ==
    /\ pc = "END"
    /\ Len(tool_results) = 0
    /\ iteration_count = max_iterations
    /\ iteration_count = SimpleBudget
    /\ final_response # ""

\* C3: for "create a branch and then open a PR" the shortlist holds create_branch and
\* create_pull_request, whatever the semantic ranking returned
C3_BothCreationTools ==
    (Analysed /\ current_query = "create a branch and then open a PR")
        => /\ InSeq("create_branch", selected_tools)
           /\ InSeq("create_pull_request", selected_tools)

\* C4: the shortlist has at most `limit` elements and no identifier twice
C4_ShortlistBoundedDistinct ==
    /\ Len(selected_tools) <= DefaultLimit
    /\ \A i, j \in 1..Len(selected_tools) :
           selected_tools[i] = selected_tools[j] => i = j

\* a full shortlist that mixes ranked and keyword tools, where a keyword tool was
\* skipped because the ranking had already listed it
C4_Witness ==
    /\ Analysed
    /\ Len(selected_tools) = DefaultLimit
    /\ InSeq("list_branches", search_results)
    /\ Contains("branch", Lower(current_query))
    /\ \E i \in 1..Len(selected_tools) : ~InSeq(selected_tools[i], search_results)

RECURSIVE KeywordTools(_, _)
\* the tools of the first k keywords of the table that occur in the lowered query,
\* in declaration order
KeywordTools(query, k) ==
    IF k = 0 THEN << >>
    ELSE KeywordTools(query, k - 1)
         \o (IF Contains(special_tools[k][1], Lower(query))
             THEN special_tools[k][2] ELSE << >>)

\* s without the repetitions of an earlier element
FirstOccurrences(s) ==
    LET first == {i \in 1..Len(s) : \A j \in 1..(i - 1) : s[j] # s[i]}
    IN [k \in 1..Cardinality(first) |->
           s[CHOOSE i \in first : Cardinality({j \in first : j <= i}) = k]]

Registered(t) == t \in tool_registry

\* C5: the shortlist is the first `limit` elements of: the ranked matches, then the
\* tools of every keyword found in the query, in table order, without the tools
\* already present and the tools outside the registry
C5_ShortlistIsRankedThenKeywords ==
    Analysed =>
        selected_tools =
            Take(FirstOccurrences(
                     search_results
                     \o SelectSeq(KeywordTools(current_query, Len(special_tools)),
                                  Registered)),
                 DefaultLimit)

\* a shortlist whose keyword part was cut by the limit, matched through lower(), with
\* a keyword tool outside the registry left out
C5_Witness ==
    /\ Analysed
    /\ current_query = "Create Branch AND Commit"
    /\ Len(search_results) = 2
    /\ InSeq("create_branch", search_results)
    /\ Len(selected_tools) = DefaultLimit
    /\ ~InSeq("commit_changes", selected_tools)

\* C6: a query classified complex gets a budget strictly below the budget of a query
\* that is not
C6_ComplexBudgetLower ==
    Analysed =>
        IF is_complex_query
        THEN max_iterations < SimpleBudget
        ELSE max_iterations = SimpleBudget

\* an analysed complex query
C6_Witness ==
    /\ Analysed
    /\ is_complex_query
    /\ current_query = "create a branch and then open a PR"

\* the indicators as the claim names them
ConjunctionWords == << "and", "then", "after", "next" >>

\* C7: a query that contains "and", "then", "after" or "next", in any letter case and
\* at any place, is classified complex
C7_ConjunctionIsComplex ==
    (Analysed /\ ContainsAny(ConjunctionWords, Lower(current_query)))
        => is_complex_query

\* place in the history of the latest reply that proposed invocations
BatchAt ==
    CHOOSE i \in 1..Len(messages) :
        /\ messages[i].type = "ai" /\ Len(messages[i].tool_calls) > 0
        /\ \A j \in (i + 1)..Len(messages) :
               ~(messages[j].type = "ai" /\ Len(messages[j].tool_calls) > 0)

\* the latest batch, when last_outcomes is not empty
Batch == messages[BatchAt].tool_calls

IsToolMessage(m) == m.type = "tool"

\* the tool_call_ids of the tool messages that follow the latest batch's reply, in order
AnsweredIds ==
    LET after == SelectSeq(SubSeq(messages, BatchAt + 1, Len(messages)), IsToolMessage)
    IN [k \in 1..Len(after) |-> after[k].tool_call_id]

\* what the i-th invocation of the latest batch has to leave in tool_results
ExpectedResult(i) ==
    CASE last_outcomes[i].kind = "return" -> last_outcomes[i].text
      [] last_outcomes[i].kind = "raise" ->
             "Error executing " \o Batch[i].name \o ": " \o last_outcomes[i].text
      [] OTHER -> "Tool " \o Batch[i].name \o " not found"

\* the i-th invocation of the latest batch was processed: its name is a key of
\* tool_results, holding its outcome unless a later invocation of the batch has the name
Processed(i) ==
    /\ HasKey(tool_results, Batch[i].name)
    /\ (\A j \in (i + 1)..Len(Batch) : Batch[j].name # Batch[i].name)
           => Get(tool_results, Batch[i].name) = ExpectedResult(i)

\* the invocations of the latest batch that returned have their tool messages in the
\* history, in proposal order
ReturnsAnsweredInOrder ==
    AnsweredIds =
        LET returned == {i \in 1..Len(Batch) : last_outcomes[i].kind = "return"}
        IN [k \in 1..Cardinality(returned) |->
               Batch[CHOOSE i \in returned :
                         Cardinality({j \in returned : j <= i}) = k].id]

\* C8: a proposed name outside the registry leaves a failure result under that name,
\* and every later invocation of the batch is still processed, in order
C8_UnknownToolRecorded ==
    \A i \in 1..Len(last_outcomes) :
        Batch[i].name \notin tool_registry =>
            /\ HasKey(tool_results, Batch[i].name)
            /\ Get(tool_results, Batch[i].name) = "Tool " \o Batch[i].name \o " not found"
            /\ \A j \in (i + 1)..Len(Batch) : Processed(j)
            /\ ReturnsAnsweredInOrder

\* a batch whose first name is unknown and whose second invocation returned
C8_Witness ==
    /\ Len(last_outcomes) = 2
    /\ Batch[1].name = "set_repository"
    /\ Batch[2].name = "create_branch"
    /\ last_outcomes[2].kind = "return"
    /\ Get(tool_results, "create_branch") = last_outcomes[2].text
    /\ Get(tool_results, "set_repository") = "Tool set_repository not found"

\* number of replies to a planning prompt in the history: the passes of the turn
PlanningReplies ==
    Cardinality({i \in 1..Len(messages) : messages[i].type = "ai"})
    - (IF pc \in {"END", "exited"} THEN 1 ELSE 0)

\* the latest pass completed although its i-th invocation raised: the invocation and
\* the rest of the batch were processed, the pass counted as one iteration, the edge
\* taken is the continuation predicate's answer, and no fault reached the driver
FaultAbsorbed(i) ==
    /\ Processed(i)
    /\ \A j \in (i + 1)..Len(Batch) : Processed(j)
    /\ ReturnsAnsweredInOrder
    /\ iteration_count = PlanningReplies
    /\ pc \in {"tool_execution", "response_generation", "END", "exited"}
    /\ pc \in {"tool_execution", "response_generation"}
           => pc = should_continue(iteration_count, max_iterations, tool_results, messages)
    /\ ~turn_error

\* C9: a fault raised by a tool is recorded under the tool's name with its description,
\* the rest of the batch is executed, the pass completes and the turn is not aborted
C9_ToolFaultAbsorbed ==
    \A i \in 1..Len(last_outcomes) :
        last_outcomes[i].kind = "raise" => FaultAbsorbed(i)

\* a batch whose first invocation raised and whose second returned
C9_Witness ==
    /\ Len(last_outcomes) = 2
    /\ last_outcomes[1].kind = "raise"
    /\ last_outcomes[2].kind = "return"
    /\ Batch[1].name = "create_branch"
    /\ Batch[2].name = "list_issues"
    /\ Get(tool_results, "create_branch") = "Error executing create_branch: connection reset"
    /\ Get(tool_results, "list_issues") = last_outcomes[2].text
    /\ pc \in {"tool_execution", "response_generation"}

\* C10: after a pass the history holds, for every proposed invocation, whatever its
\* outcome, the invocation and a tool-result entry, in proposal order
C10_EveryOutcomeInHistory ==
    Len(last_outcomes) > 0 => AnsweredIds = [k \in 1..Len(Batch) |-> Batch[k].id]

\* C11: every key of tool_results is a member of selected_tools or a name outside the
\* registry (recorded with the failure text); a registered tool outside the shortlist
\* is never a key
C11_KeysWithinShortlist ==
    \A i \in 1..Len(tool_results) :
        \/ InSeq(tool_results[i].name, selected_tools)
        \/ tool_results[i].name \notin tool_registry

\* the text of the invocation executed last in the latest pass, when it returned
LatestReturnIncomplete ==
    /\ Len(last_outcomes) > 0
    /\ last_outcomes[Len(last_outcomes)].kind = "return"
    /\ ContainsAny(incomplete_indicators,
                   Lower(last_outcomes[Len(last_outcomes)].text))

\* C12: when budget remains and the invocation executed most recently returned a text
\* with an "incomplete" phrase, the pass ends with "continue", whatever ran earlier
C12_LatestIncompleteContinues ==
    (/\ pc \in {"tool_execution", "response_generation"}
     /\ iteration_count < max_iterations
     /\ LatestReturnIncomplete)
        => pc = "tool_execution"

\* an executing pass has just returned and the conditional edge was taken
AfterPass ==
    /\ pc \in {"tool_execution", "response_generation"}
    /\ iteration_count > 0

\* C13: with tool_results empty after a pass and budget left the edge taken is
\* "continue"; synthesis is entered with empty tool_results only on a spent budget
C13_EmptyResultsContinue ==
    /\ (AfterPass /\ Len(tool_results) = 0 /\ iteration_count < max_iterations)
           => pc = "tool_execution"
    /\ (pc = "response_generation" /\ Len(tool_results) = 0)
           => iteration_count >= max_iterations

\* pass one proposed no invocation, the reply reads as finished, and the loop goes on
C13_Witness ==
    /\ AfterPass
    /\ iteration_count = 1
    /\ Len(tool_results) = 0
    /\ messages[Len(messages)].content = DoneReply
    /\ pc = "tool_execution"

\* C14: the budget rule is tested first: with iteration_count >= max_iterations the edge
\* taken is "stop" whatever the other rules would say, and the turn goes on to
\* synthesis without an error reported
C14_BudgetRuleFirst ==
    (pc \in {"tool_execution", "response_generation"}
     /\ iteration_count >= max_iterations)
        => /\ pc = "response_generation"
           /\ ~turn_error
           /\ ENABLED response_generation_node

\* the budget ended a loop that both the last message and the latest result would
\* have kept going
C14_Witness ==
    /\ pc = "response_generation"
    /\ iteration_count = max_iterations
    /\ LastMessageContinues(messages)
    /\ LastResultIncomplete(tool_results)

\* the text of the most recent entry of the history holds a "more work" phrase
LatestEntryAnnouncesMore ==
    \E last \in {messages[Len(messages)]} :
        /\ last.type \in {"ai", "tool"}
        /\ last.content # ""
        /\ \E k \in 1..Len(continue_indicators) :
               Contains(continue_indicators[k], Lower(last.content))

\* C15: with budget left and tool_results not empty, the edge taken is "continue" when
\* the most recent entry of the history, a model reply or a tool output, holds a
\* "more work" phrase in any letter case
C15_LastMessageAnnouncesMore ==
    (/\ AfterPass
     /\ iteration_count < max_iterations
     /\ Len(tool_results) > 0
     /\ LatestEntryAnnouncesMore)
        => pc = "tool_execution"

\* a tool output that names more work keeps the loop going although the latest result
\* does not read as incomplete
C15_Witness ==
    /\ AfterPass
    /\ iteration_count < max_iterations
    /\ messages[Len(messages)].type = "tool"
    /\ messages[Len(messages)].content = "Branch next created"
    /\ ~LastResultIncomplete(tool_results)
    /\ pc = "tool_execution"

PromptAt ==
    CHOOSE k \in 1..Len(messages) :
        /\ messages[k].type = "human"
        /\ \A j \in (k + 1)..Len(messages) : messages[j].type # "human"

\* what the latest pass returned, rebuilt from its prompt (at place `at` of the
\* history), its reply and the outcomes of its invocations
NodeReturned(at) ==
    LET prompt == messages[at].content
        before == [i \in 1..Len(prompt.context) |->
                      [name |-> prompt.context[i].name,
                       result |-> prompt.context[i].preview]]
        end == ExecBatch([tool_results |-> before,
                          messages |-> SubSeq(messages, 1, at + 1)],
                         messages[at + 1].tool_calls, last_outcomes, 1)
    IN [messages |-> end.messages,
        current_query |-> prompt.query,
        selected_tools |-> prompt.tools,
        tool_results |-> end.tool_results,
        final_response |-> "",
        iteration_count |-> prompt.iteration,
        max_iterations |-> prompt.max,
        is_complex_query |-> IsComplex(prompt.query)]

\* the AgentState of the current state
Snapshot ==
    [messages |-> messages,
     current_query |-> current_query,
     selected_tools |-> selected_tools,
     tool_results |-> tool_results,
     final_response |-> final_response,
     iteration_count |-> iteration_count,
     max_iterations |-> max_iterations,
     is_complex_query |-> is_complex_query]

C18_OneIterationPerPass ==
    Analysed =>
        /\ iteration_count = PlanningReplies
        /\ iteration_count = 0 <=> Len(messages) = 1

\* two passes counted: the first proposed nothing, the second proposed two invocations
\* of which the first raised
C18_Witness ==
    /\ Analysed
    /\ iteration_count = 2
    /\ Len(messages[3].tool_calls) = 0
    /\ Len(last_outcomes) = 2
    /\ last_outcomes[1].kind = "raise"

\* C19: final_response is empty in every state of a turn before synthesis, and at the
\* end of the turn it is the content of the one reply to the one final prompt
C19_FinalResponseWrittenOnce ==
    /\ pc \in {"query_analysis", "tool_execution", "response_generation"}
           => final_response = ""
    /\ pc = "END"
           => /\ final_response = messages[Len(messages)].content
              /\ Cardinality({i \in 1..Len(messages) : messages[i].type = "human"})
                     = iteration_count + 2
              /\ Cardinality({i \in 1..Len(messages) : messages[i].type = "ai"})
                     = iteration_count + 1

\* a turn that ran tools in several passes has ended and holds the response that
\* synthesis wrote
C19_Witness ==
    /\ pc = "END"
    /\ final_response \in FinalReplies
    /\ iteration_count > 1
    /\ Len(tool_results) > 1

\* C20: a fault of a model invocation reaches the driver: the turn ends with the error
\* reported and no final response, the driver keeps the dict it passed in and reads
\* the next query; a fault raised by a tool never reaches the driver
C20_ModelFaultSurfaces ==
    /\ turn_error
           => /\ pc \in {"input", "exited"}
              /\ final_response = ""
              /\ iteration_count = 0
              /\ messages = << HumanMessage(current_query) >>
              /\ pc = "input" => ENABLED user_query("list issues")
    /\ (\E i \in 1..Len(last_outcomes) : last_outcomes[i].kind = "raise")
           => /\ ~turn_error
              /\ pc \in {"tool_execution", "response_generation", "END", "exited"}

\* the driver reported a fault of the model and waits for the next query
C20_Witness ==
    /\ turn_error
    /\ pc = "input"
    /\ current_query = "create a branch and then open a PR"
    /\ final_response = ""

\* C21: a query enters the graph with a fresh AgentState, whether the turn before it
\* completed or was aborted: the history holds the new query alone, and no result,
\* counter, shortlist or response of the earlier turn is left
C21_TurnStartsFresh ==
    pc = "query_analysis" =>
        /\ messages = << HumanMessage(current_query) >>
        /\ tool_results = << >>
        /\ iteration_count = 0
        /\ final_response = ""
        /\ selected_tools = << >>
        /\ max_iterations = DriverBudget
        /\ ~is_complex_query

\* a query awaits analysis after a turn that a fault of the model aborted
C21_Witness ==
    /\ pc = "query_analysis"
    /\ previous_turn = "aborted"
    /\ messages = << HumanMessage("create a branch and then open a PR") >>

\* C22: an input that is "exit", "quit" or "bye" in any letter case never becomes the
\* query of a turn, and once it is read the session has ended: neither query analysis
\* nor an executing pass nor synthesis nor a model call can follow
C22_ExitWordEndsSession ==
    /\ pc \in {"query_analysis", "tool_execution", "response_generation", "END"}
           => Lower(current_query) \notin ExitWords
    /\ pc = "exited"
           => ~ENABLED (\/ query_analysis_node(tool_registry)
                        \/ tool_execution_node(MaxCalls, MaxNudges)
                        \/ response_generation_node
                        \/ model_fault
                        \/ main_except)

\* the session ended on " EXIT " after a completed turn, whose state is left as it was
C22_Witness ==
    /\ pc = "exited"
    /\ final_response \in FinalReplies
    /\ current_query = "create a branch and then open a PR"

\* C23: when a pass has returned, every invocation of its batch has been processed, one
\* after the other in proposal order, and what the batch left in the history lies
\* between the model's reply and whatever the loop did next
C23_BatchInOrderBeforeNextStep ==
    Len(last_outcomes) > 0 =>
        /\ Len(last_outcomes) = Len(Batch)
        /\ \A i \in 1..Len(Batch) : Processed(i)
        /\ ReturnsAnsweredInOrder
        /\ AfterPass =>
               /\ \A j \in (BatchAt + 1)..Len(messages) : messages[j].type = "tool"
               /\ iteration_count = PlanningReplies
               /\ pc = should_continue(iteration_count, max_iterations,
                                       tool_results, messages)

\* a batch of two invocations that both returned, with different texts
C23_Witness ==
    /\ AfterPass
    /\ Len(last_outcomes) = 2
    /\ last_outcomes[1].kind = "return"
    /\ last_outcomes[2].kind = "return"
    /\ last_outcomes[1].text # last_outcomes[2].text
    /\ Batch[1].name # Batch[2].name
    /\ messages[Len(messages)].content = last_outcomes[2].text

\* the steps of a session in which every call of the model returns
TurnEdges ==
    { <<"input", "query_analysis">>, <<"input", "exited">>,
      <<"END", "query_analysis">>, <<"END", "exited">>,
      <<"query_analysis", "tool_execution">>,
      <<"tool_execution", "tool_execution">>,
      <<"tool_execution", "response_generation">>,
      <<"response_generation", "END">> }

\* C24: a turn is analysis, then executing passes, then synthesis, then the end:
\* analysis leads only to a pass, a pass only to a pass or to synthesis, synthesis only
\* to the end; synthesis starts after at least one pass, also with an empty shortlist,
\* and the finished turn holds one final prompt, behind every planning prompt
C24_TurnOrder ==
    /\ [][\E edge \in TurnEdges : pc = edge[1] /\ pc' = edge[2]]_vars
    /\ [](pc \in {"response_generation", "END"} => iteration_count >= 1)
    /\ [](pc = "END" =>
              /\ Cardinality({i \in 1..Len(messages) : messages[i].type = "human"})
                     = iteration_count + 2
              /\ messages[Len(messages)].content = final_response
              /\ PromptAt = Len(messages) - 1)

\* a turn with an empty shortlist that has ended after its passes and its synthesis
C24_Witness ==
    /\ pc = "END"
    /\ current_query = "hello"
    /\ selected_tools = << >>
    /\ iteration_count >= 1
    /\ final_response \in FinalReplies

\* C25: from analysis to the end of the turn current_query is the query the driver
\* read, selected_tools the shortlist analysis chose and max_iterations the budget
\* analysis set: passes, the continuation predicate and synthesis leave them alone
C25_AnalysisFieldsFixed ==
    Analysed =>
        /\ current_query = messages[1].content
        /\ selected_tools =
               retrieve_relevant_tools(current_query, search_results, DefaultLimit)
        /\ max_iterations = Budget(IsComplex(current_query))

\* a turn of a simple query that ended after several passes and synthesis: it still
\* has the shortlist and the budget of ten that analysis gave it
C25_Witness ==
    /\ pc = "END"
    /\ iteration_count > 2
    /\ current_query = "list issues"
    /\ InSeq("list_issues", selected_tools)
    /\ Len(tool_results) > 0
    /\ max_iterations = SimpleBudget

\* C26: an executing pass and synthesis only append to the message history: the history
\* before the step is a prefix of the history after it
C26_HistoryAppendOnly ==
    [][(pc \in {"tool_execution", "response_generation"}
        /\ pc' \in {"tool_execution", "response_generation", "END"})
           => /\ Len(messages') > Len(messages)
              /\ SubSeq(messages', 1, Len(messages)) = messages]_vars

\* a finished turn whose history grew by two passes, two tool messages and synthesis
C26_Witness ==
    /\ pc = "END"
    /\ iteration_count = 2
    /\ Cardinality({i \in 1..Len(messages) : messages[i].type = "tool"}) = 2
    /\ messages[1] = HumanMessage(current_query)
    /\ messages[Len(messages)].content = final_response

\* every invocation the model proposed in the turn
AllCalls == UNION {Range(messages[m].tool_calls) : m \in 1..Len(messages)}

\* the invocation of tool t proposed last in the turn
LatestCall(t) ==
    CHOOSE c \in AllCalls :
        c.name = t /\ \A d \in AllCalls : d.name = t => d.id <= c.id

\* the tool messages of the history
ToolMessages == {messages[m] : m \in {k \in 1..Len(messages) : messages[k].type = "tool"}}

\* what the invocation `call` left behind matches the value v: the text it returned,
\* or the failure text for an unknown name, or the failure text for a fault
IsOutcomeOf(v, call) ==
    IF \E m \in ToolMessages : m.tool_call_id = call.id
    THEN \E m \in ToolMessages : m.tool_call_id = call.id /\ m.content = v
    ELSE IF call.name \notin tool_registry
    THEN v = "Tool " \o call.name \o " not found"
    ELSE \E o \in ToolOutcomes :
             o.kind = "raise" /\ v = "Error executing " \o call.name \o ": " \o o.text

\* C27: tool_results holds one entry for every tool name proposed in the turn, none is
\* ever removed, and the entry of a name is the outcome of the invocation of that name
\* proposed last, also when the name occurs twice in one batch
C27_LastWriteWins ==
    /\ {tool_results[i].name : i \in 1..Len(tool_results)} = {c.name : c \in AllCalls}
    /\ \A i, j \in 1..Len(tool_results) :
           tool_results[i].name = tool_results[j].name => i = j
    /\ \A i \in 1..Len(tool_results) :
           IsOutcomeOf(tool_results[i].result, LatestCall(tool_results[i].name))
    /\ \A i \in 1..Len(last_outcomes) : Processed(i)

\* one batch proposed create_branch twice: the first invocation returned, the second
\* raised, and the entry is the failure text of the second
C27_Witness ==
    /\ Len(last_outcomes) = 2
    /\ Batch[1].name = "create_branch"
    /\ Batch[2].name = "create_branch"
    /\ last_outcomes[1].kind = "return"
    /\ last_outcomes[2].kind = "raise"
    /\ tool_results =
           << [name |-> "create_branch",
               result |-> "Error executing create_branch: connection reset"] >>

\* C28: when a call of the model raises in a pass or in synthesis, the state that was
\* passed into the node has its message history and its tool_results, and every other
\* field, exactly as before the node started; the prompt the node had appended went
\* to a copy
C28_FaultLeavesStateAsPassed ==
    /\ [][pc' = "raised"
              => UNCHANGED <<messages, tool_results, current_query, selected_tools,
                             final_response, iteration_count, max_iterations,
                             is_complex_query>>]_vars
    /\ [](pc = "raised"
              => /\ Len(messages) > 1 => messages[Len(messages)].type # "human"
                 /\ Len(tool_results) > 0 => Len(messages) > 1)

\* the model raised in a later pass: the state passed into that pass ends with the tool
\* message of the pass before and holds its result
C28_Witness ==
    /\ pc = "raised"
    /\ iteration_count = 1
    /\ Len(tool_results) = 1
    /\ messages[Len(messages)].type = "tool"
    /\ messages[Len(messages)].content = tool_results[1].result

\* s begins with prefix
StartsWith(s, prefix) == Len(s) >= Len(prefix) /\ SubSeq(s, 1, Len(prefix)) = prefix

\* C29: whatever its input and whatever its remote and local calls do, a tool returns a
\* string and does not raise; the string begins with the success marker when the
\* operation was carried out and with the failure marker when it was not
C29_ToolTextsMarked ==
    \A i \in 1..Len(last_outcomes) :
        /\ last_outcomes[i].kind = "return"
        /\ IF last_outcomes[i].done
           THEN StartsWith(last_outcomes[i].text, SuccessMarker)
           ELSE StartsWith(last_outcomes[i].text, FailureMarker)

\* C30: for the query "set repository test-folder" and the shipped registry the shortlist
\* of the analysis is non-empty, whatever store.search returned
C30_SetRepositoryShortlistNonEmpty ==
    (Analysed /\ current_query = "set repository test-folder")
        => Len(selected_tools) > 0

\* the search found nothing and the keyword pass alone filled the shortlist
C30_Witness ==
    /\ Analysed
    /\ current_query = "set repository test-folder"
    /\ search_results = << >>
    /\ selected_tools = << "create_repository", "delete_repository", "get_repository_info" >>

\* line 181: the tool the planning prompt tells the model to use first
GuidelineTool == "set_repository"

\* C31: the tool named by the planning prompt's guideline is registered, so an invocation
\* of it that the model proposes is executed and not recorded as not found
C31_GuidelineToolExecuted ==
    \A i \in 1..Len(tool_results) :
        tool_results[i].name = GuidelineTool
            => tool_results[i].result # "Tool " \o GuidelineTool \o " not found"

\* the final prompt of a completed turn: the message before the model's last reply
FinalPromptSent == messages[Len(messages) - 1].content

\* C32: the final prompt carries the notice "No tools executed." exactly when
\* tool_results is empty at loop exit, and otherwise one line for every key of
\* tool_results, in the dict's order
C32_NoticeIffNoResults ==
    pc = "END" =>
        /\ (FinalPromptSent.summary = << "No tools executed." >>) <=> (tool_results = << >>)
        /\ tool_results # << >> =>
              /\ Len(FinalPromptSent.summary) = Len(tool_results)
              /\ \A i \in 1..Len(tool_results) :
                    FinalPromptSent.summary[i] =
                        "**" \o tool_results[i].name \o "**: " \o tool_results[i].result

\* a turn that left the loop on its budget without any invocation, and so with the notice
C32_Witness ==
    /\ pc = "END"
    /\ tool_results = << >>
    /\ iteration_count = max_iterations
    /\ FinalPromptSent.summary = << "No tools executed." >>

\* a turn that ended with two keys and two lines
C32_WitnessEntries ==
    /\ pc = "END"
    /\ Len(tool_results) = 2
    /\ Len(FinalPromptSent.summary) = 2

\* C33: every identifier of selected_tools is a key of the tool registry, for every query
\* and every keyword match, so the lookups of bind_tools (line 194) find their tools
C33_ShortlistRegistered ==
    \A i \in 1..Len(selected_tools) : selected_tools[i] \in tool_registry

\* a query whose keyword "vscode" names a tool outside the registry: the keyword pass
\* left that name out and took the registered tools of "file"
C33_Witness ==
    /\ Analysed
    /\ current_query = "open file in vscode"
    /\ search_results = << >>
    /\ \E k \in 1..Len(special_tools) :
          /\ Contains(special_tools[k][1], Lower(current_query))
          /\ \E t \in Range(special_tools[k][2]) : t \notin tool_registry
    /\ selected_tools = << "create_file", "update_file", "delete_file", "create_local_file" >>

\* the places of the planning prompts in the history: the human messages after the
\* query, but for the final prompt of a turn whose final response is written
PlanningPromptPlaces ==
    {k \in 2..Len(messages) :
        /\ messages[k].type = "human"
        /\ ~(final_response # "" /\ k = Len(messages) - 1)}

\* C34: whenever an executing pass starts, iteration_count < max_iterations, so the
\* iteration number of every planning prompt is between 1 and max_iterations
C34_PassStartsWithinBudget ==
    /\ pc = "tool_execution" => iteration_count < max_iterations
    /\ \A k \in PlanningPromptPlaces :
          /\ 1 <= messages[k].content.iteration
          /\ messages[k].content.iteration <= messages[k].content.max
          /\ messages[k].content.max = max_iterations

\* the last pass the budget allows has started and ended: its prompt showed
\* max_iterations of max_iterations
C34_Witness ==
    /\ pc = "response_generation"
    /\ iteration_count = max_iterations
    /\ Len(tool_results) > 0
    /\ \E k \in PlanningPromptPlaces : messages[k].content.iteration = max_iterations

\* the places where the model was invoked: a prompt followed by the model's reply
ModelInvocations ==
    {k \in 2..(Len(messages) - 1) :
        messages[k].type = "human" /\ messages[k + 1].type = "ai"}

\* C35: in a completed turn the model was invoked for planning once per executing pass,
\* so iteration_count times with 1 <= iteration_count <= max_iterations, and once for
\* synthesis; the history holds no other prompt and no other reply
C35_OneInvocationPerPass ==
    pc = "END" =>
        /\ Len(messages) - 1 \in ModelInvocations
        /\ Cardinality(ModelInvocations \ {Len(messages) - 1}) = iteration_count
        /\ 1 <= iteration_count
        /\ iteration_count <= max_iterations
        /\ Cardinality({i \in 1..Len(messages) : messages[i].type = "ai"})
               = iteration_count + 1
        /\ Cardinality({i \in 1..Len(messages) : messages[i].type = "human"})
               = iteration_count + 2

\* a completed turn of two passes, the second of which ran a tool, and one synthesis
C35_Witness ==
    /\ pc = "END"
    /\ iteration_count = 2
    /\ Cardinality(ModelInvocations) = 3
    /\ Len(tool_results) = 1

\* C36: delete_branch never deletes a protected branch: for branch_name "main" or
\* "master" it returns a failure text and asks for no ref and deletes none, for every
\* owner and repository and whatever the remote calls do
C36_ProtectedBranchKept ==
    \A i \in 1..Len(last_outcomes) :
        (last_outcomes[i].name = "delete_branch"
         /\ last_outcomes[i].args[3] \in {"main", "master"})
            => /\ last_outcomes[i].kind = "return"
               /\ StartsWith(last_outcomes[i].text, FailureMarker)
               /\ ~InSeq("delete_git_ref", last_outcomes[i].effects)
               /\ ~InSeq("get_git_ref", last_outcomes[i].effects)

\* the repository was found and the deletion of master was refused
C36_Witness ==
    /\ Len(last_outcomes) = 1
    /\ last_outcomes[1].name = "delete_branch"
    /\ last_outcomes[1].args = << "octo", "demo", "master" >>
    /\ last_outcomes[1].text = FailureMarker \o " Cannot delete protected branch 'master'"
    /\ last_outcomes[1].effects = << "get_repo" >>

\* C37: clone_repository leaves local state unchanged on failure: when the clone did not
\* succeed, a directory that was at the target path before is there afterwards with
\* the contents it had
C37_FailedCloneKeepsDirectory ==
    \A i \in 1..Len(last_outcomes) :
        (last_outcomes[i].name = "clone_repository"
         /\ ~last_outcomes[i].done
         /\ last_outcomes[i].dir_before = "old")
            => last_outcomes[i].dir_after = "old"

\* a text that reports missing parameters
ReportsMissing(text) == Contains("Missing required parameter", text)

\* no call of the invocation reached the remote API or changed local files or a local
\* repository
NoSideEffect(run) ==
    \A k \in 1..Len(run.effects) : run.effects[k] \notin RemoteCalls \cup LocalMutations

\* C38 as stated: every tool invoked with a required parameter missing or empty returns
\* a failure text and makes no remote call and no local mutation
C38_MissingParameterRefused ==
    \A i \in 1..Len(last_outcomes) :
        last_outcomes[i].incomplete
            => /\ last_outcomes[i].kind = "return"
               /\ ~last_outcomes[i].done
               /\ ReportsMissing(last_outcomes[i].text)
               /\ NoSideEffect(last_outcomes[i])

\* C38: every tool but github_greeter, invoked with a required parameter missing or
\* empty, returns a text that reports the missing parameters and makes no remote call
\* and no local mutation; github_greeter greets the empty name and has no effect either
C38_MissingParameterRefusedButGreeter ==
    \A i \in 1..Len(last_outcomes) :
        last_outcomes[i].incomplete
            => /\ last_outcomes[i].kind = "return"
               /\ NoSideEffect(last_outcomes[i])
               /\ IF last_outcomes[i].name = "github_greeter"
                  THEN last_outcomes[i].text
                           = "Hello, ! Welcome to the GitHub automation tool."
                  ELSE ReportsMissing(last_outcomes[i].text)
                       /\ ~last_outcomes[i].done

\* delete_repository without a repository name: refused before any call
C38_Witness ==
    /\ Len(last_outcomes) = 1
    /\ last_outcomes[1].name = "delete_repository"
    /\ last_outcomes[1].args = << "octo", "" >>
    /\ last_outcomes[1].incomplete
    /\ last_outcomes[1].text = FailureMarker \o " Missing required parameters: repo_name"
    /\ last_outcomes[1].effects = << >>

====
